---------------------------- MODULE Spec2Model ----------------------------
(***************************************************************************)
(* A model of the product / lead service of src/main.go: the schema        *)
(* validator (validateDataAgainstSchema, validateFieldType) and the        *)
(* handlers that gate writes to the lead collection with it.               *)
(*                                                                         *)
(* Go values of type interface{} are records [t |-> <dynamic type>,        *)
(* v |-> <payload>]; the tag t is the Go dynamic type the type switches    *)
(* and type assertions of the source inspect.  Go strings (map keys, type  *)
(* names, error messages) are TLA+ strings.                                *)
(***************************************************************************)
EXTENDS Integers, Sequences, FiniteSets, TLC

VARIABLES
    products,       \* productCollection: _id -> stored schema
    leads,          \* leadCollection: _id -> [product_id, data]
    nextProductID,  \* next value of primitive.NewObjectID() for products
    nextLeadID,     \* next value of primitive.NewObjectID() for leads
    resp,           \* the last request handled and the answer it got
    http,           \* the last HTTP exchange: handler, phone_number sent, status written
    fn,             \* validator run: the function applied
    argData,        \* validator run: data of validateDataAgainstSchema
    argSchema,      \* validator run: schema of validateDataAgainstSchema
    argField,       \* validator run: fieldName of validateFieldType
    argValue,       \* validator run: value of validateFieldType
    argType,        \* validator run: expectedType of validateFieldType
    pc,             \* validator run: "call" before the call, "done" after
    ret,            \* validator run: the error returned
    calls           \* validation calls in progress on the one schema argSchema

storeVars == <<products, leads, nextProductID, nextLeadID, resp>>
runVars   == <<fn, argData, argSchema, argField, argValue, argType, pc, ret, calls>>
vars      == <<products, leads, nextProductID, nextLeadID, resp, http,
               fn, argData, argSchema, argField, argValue, argType, pc, ret, calls>>

---------------------------------------------------------------------------
(* Bounds of the model.                                                    *)

MaxArrayLen == 3
MaxDepth    == 2
MaxProducts == 1
MaxLeads    == 2
MaxCalls    == 2

---------------------------------------------------------------------------
(* Go values.  int, int32 and int64 share every case of the source's type  *)
(* switches and are one tag, as are float32 and float64.                   *)

VNil          == [t |-> "nil"]
VBool(b)      == [t |-> "bool", v |-> b]
VInt(i)       == [t |-> "int", v |-> i]
VFloat(x)     == [t |-> "float64", v |-> x]
VStr(s)       == [t |-> "string", v |-> s]
VArray(s)     == [t |-> "[]interface{}", v |-> s]
VObject(m)    == [t |-> "map[string]interface{}", v |-> m]
VBsonM(m)     == [t |-> "bson.M", v |-> m]
VTime(x)      == [t |-> "time.Time", v |-> x]
VDateTime(x)  == [t |-> "primitive.DateTime", v |-> x]
VTimestamp(x) == [t |-> "primitive.Timestamp", v |-> x]

\* The nil error.
Nil == "<nil>"

\* reflect.TypeOf(value).Kind() == reflect.Slice: of the dynamic types drawn
\* here, []interface{} alone is a slice.
IsSlice(value) == value.t = "[]interface{}"

---------------------------------------------------------------------------
(* Strings as the parsers of the standard library read them: the bytes of  *)
(* every string value the model draws.                                     *)

Chars(s) ==
    CASE s = ""                     -> <<>>
      [] s = "Al"                   -> <<"A", "l">>
      [] s = "Jane"                 -> <<"J", "a", "n", "e">>
      [] s = "thirty"               -> <<"t", "h", "i", "r", "t", "y">>
      [] s = "tech"                 -> <<"t", "e", "c", "h">>
      [] s = "sales"                -> <<"s", "a", "l", "e", "s">>
      [] s = "soon"                 -> <<"s", "o", "o", "n">>
      [] s = "123abc"               -> <<"1", "2", "3", "a", "b", "c">>
      [] s = "1691582400"           -> <<"1", "6", "9", "1", "5", "8", "2", "4", "0", "0">>
      [] s = "2024-08-09"           -> <<"2", "0", "2", "4", "-", "0", "8", "-", "0", "9">>
      [] s = "08/09/2024"           -> <<"0", "8", "/", "0", "9", "/", "2", "0", "2", "4">>
      [] s = "$set"                 -> <<"$", "s", "e", "t">>
      [] s = "name"                 -> <<"n", "a", "m", "e">>
      [] s = "age"                  -> <<"a", "g", "e">>
      [] s = "interests"            -> <<"i", "n", "t", "e", "r", "e", "s", "t", "s">>
      [] s = "user_info"            -> <<"u", "s", "e", "r", "_", "i", "n", "f", "o">>
      [] s = "first_name"           -> <<"f", "i", "r", "s", "t", "_", "n", "a", "m", "e">>
      [] s = "nickname"             -> <<"n", "i", "c", "k", "n", "a", "m", "e">>
      [] s = "2024-08-09T12:00:00Z" ->
            <<"2", "0", "2", "4", "-", "0", "8", "-", "0", "9", "T",
              "1", "2", ":", "0", "0", ":", "0", "0", "Z">>
      [] s = "-5"                   -> <<"-", "5">>
      [] s = "12.5"                 -> <<"1", "2", ".", "5">>
      [] s = "9223372036854775808"  ->
            <<"9", "2", "2", "3", "3", "7", "2", "0", "3",
              "6", "8", "5", "4", "7", "7", "5", "8", "0", "8">>
      [] s = "2024-02-30"           -> <<"2", "0", "2", "4", "-", "0", "2", "-", "3", "0">>
      [] s = "2024-08-09 12:00:00"  ->
            <<"2", "0", "2", "4", "-", "0", "8", "-", "0",
              "9", " ", "1", "2", ":", "0", "0", ":", "0", "0">>
      [] s = "2024-08-09 1:00:00"   ->
            <<"2", "0", "2", "4", "-", "0", "8", "-", "0",
              "9", " ", "1", ":", "0", "0", ":", "0", "0">>
      [] s = "2024-08-09T12:00:00"  ->
            <<"2", "0", "2", "4", "-", "0", "8", "-", "0",
              "9", "T", "1", "2", ":", "0", "0", ":", "0", "0">>
      [] s = "2024-08-09T25:00:00Z" ->
            <<"2", "0", "2", "4", "-", "0", "8", "-", "0", "9",
              "T", "2", "5", ":", "0", "0", ":", "0", "0", "Z">>
      [] s = "2024-08-09T12:00:00.123Z"->
            <<"2", "0", "2", "4", "-", "0", "8", "-", "0", "9", "T", "1",
              "2", ":", "0", "0", ":", "0", "0", ".", "1", "2", "3", "Z">>
      [] s = "2024-08-09T12:00:00+02:00"->
            <<"2", "0", "2", "4", "-", "0", "8", "-", "0", "9", "T", "1",
              "2", ":", "0", "0", ":", "0", "0", "+", "0", "2", ":", "0", "0">>

Digits == <<"0", "1", "2", "3", "4", "5", "6", "7", "8", "9">>

IsDigit(c) == \E i \in 1..10 : Digits[i] = c

DigitVal(c) == (CHOOSE i \in 1..10 : Digits[i] = c) - 1

AllDigits(cs) == \A i \in 1..Len(cs) : IsDigit(cs[i])

Drop(cs, n) == SubSeq(cs, n + 1, Len(cs))

Take(cs, n) == SubSeq(cs, 1, n)

RECURSIVE StripZeros(_)
StripZeros(cs) ==
    IF cs # <<>> /\ Head(cs) = "0" THEN StripZeros(Tail(cs)) ELSE cs

\* a <= b for two digit strings of the same length
RECURSIVE DigitsLeq(_, _)
DigitsLeq(a, b) ==
    IF a = <<>>
    THEN TRUE
    ELSE IF DigitVal(Head(a)) # DigitVal(Head(b))
    THEN DigitVal(Head(a)) < DigitVal(Head(b))
    ELSE DigitsLeq(Tail(a), Tail(b))

MaxInt64Digits ==
    <<"9", "2", "2", "3", "3", "7", "2", "0", "3", "6",
      "8", "5", "4", "7", "7", "5", "8", "0", "7">>

MinInt64Digits ==
    <<"9", "2", "2", "3", "3", "7", "2", "0", "3", "6",
      "8", "5", "4", "7", "7", "5", "8", "0", "8">>

\* The digits at the start of the string read, and what follows them ignored.
ParseIntOk_prefix(s) ==
    LET cs     == Chars(s)
        signed == cs # <<>> /\ Head(cs) \in {"+", "-"}
        body   == IF signed THEN Tail(cs) ELSE cs
    IN  body # <<>> /\ IsDigit(Head(body))

\* strconv.ParseInt(v, 10, 64) returns no error: an optional sign, then one
\* or more decimal digits and nothing else, the value within int64.
ParseIntOk(s) ==
    LET cs     == Chars(s)
        signed == cs # <<>> /\ Head(cs) \in {"+", "-"}
        body   == IF signed THEN Tail(cs) ELSE cs
        mag    == StripZeros(body)
        limit  == IF signed /\ Head(cs) = "-" THEN MinInt64Digits ELSE MaxInt64Digits
    IN  /\ body # <<>>
        /\ AllDigits(body)
        /\ \/ Len(mag) < Len(limit)
           \/ Len(mag) = Len(limit) /\ DigitsLeq(mag, limit)

\* The value of a string of digits (short ones: the fields of a date).
RECURSIVE NumVal(_)
NumVal(cs) ==
    IF cs = <<>> THEN 0 ELSE 10 * NumVal(Take(cs, Len(cs) - 1)) + DigitVal(cs[Len(cs)])

IsLeap(year) == year % 4 = 0 /\ (year % 100 # 0 \/ year % 400 = 0)

DaysIn(month, year) ==
    IF month = 2
    THEN (IF IsLeap(year) THEN 29 ELSE 28)
    ELSE IF month \in {4, 6, 9, 11} THEN 30 ELSE 31

\* The layout prefix "2006-01-02": what is left of the input after it, or
\* <<"!">> when the input does not start with a date.
Bad == <<"!">>

AfterDate(cs) ==
    IF /\ Len(cs) >= 10
       /\ AllDigits(Take(cs, 4)) /\ cs[5] = "-"
       /\ AllDigits(SubSeq(cs, 6, 7)) /\ cs[8] = "-"
       /\ AllDigits(SubSeq(cs, 9, 10))
       /\ NumVal(SubSeq(cs, 6, 7)) \in 1..12
       /\ NumVal(SubSeq(cs, 9, 10)) \in
              1..DaysIn(NumVal(SubSeq(cs, 6, 7)), NumVal(Take(cs, 4)))
    THEN Drop(cs, 10)
    ELSE Bad

\* A fractional second the input may carry after the seconds whether or not
\* the layout has one: '.' or ',' and one or more digits.
RECURSIVE DropDigits(_)
DropDigits(cs) ==
    IF cs # <<>> /\ IsDigit(Head(cs)) THEN DropDigits(Tail(cs)) ELSE cs

AfterFraction(cs) ==
    IF Len(cs) >= 2 /\ cs[1] \in {".", ","} /\ IsDigit(cs[2])
    THEN DropDigits(Tail(cs))
    ELSE cs

\* The layout part "15:04:05": an hour of one or two digits, two-digit
\* minutes and seconds, each in range.
AfterClock(cs) ==
    LET hlen == IF Len(cs) >= 2 /\ IsDigit(cs[2]) THEN 2 ELSE 1
        rest == Drop(cs, hlen)
    IN  IF /\ cs # <<>> /\ IsDigit(cs[1])
           /\ NumVal(Take(cs, hlen)) < 24
           /\ Len(rest) >= 6
           /\ rest[1] = ":" /\ AllDigits(SubSeq(rest, 2, 3)) /\ NumVal(SubSeq(rest, 2, 3)) < 60
           /\ rest[4] = ":" /\ AllDigits(SubSeq(rest, 5, 6)) /\ NumVal(SubSeq(rest, 5, 6)) < 60
        THEN AfterFraction(Drop(rest, 6))
        ELSE Bad

\* The layout part "Z07:00": "Z", or a sign and hh:mm.
AfterZone(cs) ==
    IF cs # <<>> /\ cs[1] = "Z"
    THEN Tail(cs)
    ELSE IF /\ cs # Bad
            /\ Len(cs) >= 6
            /\ cs[1] \in {"+", "-"}
            /\ AllDigits(SubSeq(cs, 2, 3)) /\ cs[4] = ":" /\ AllDigits(SubSeq(cs, 5, 6))
    THEN Drop(cs, 6)
    ELSE Bad

\* The layout literal c.
AfterLit(cs, c) == IF cs # <<>> /\ cs # Bad /\ cs[1] = c THEN Tail(cs) ELSE Bad

\* time.Parse(layout, s) returns no error, for each layout of the source.
\* RFC3339, RFC3339Nano and "2006-01-02T15:04:05Z07:00" accept the same inputs.
\* An input a part rejects is Bad for every part after it.
ParsesRFC3339(cs)   == AfterZone(AfterClock(AfterLit(AfterDate(cs), "T"))) = <<>>
ParsesDateOnly(cs)  == AfterDate(cs) = <<>>
ParsesDateSpace(cs) == AfterClock(AfterLit(AfterDate(cs), " ")) = <<>>
ParsesDateT(cs)     == AfterClock(AfterLit(AfterDate(cs), "T")) = <<>>

\* The layouts after the first two left out.
isValidISODateString_rfcOnly(s) == ParsesRFC3339(Chars(s))

isValidISODateString(s) ==
    LET cs == Chars(s) IN
    ParsesRFC3339(cs) \/ ParsesDateOnly(cs) \/ ParsesDateSpace(cs) \/ ParsesDateT(cs)

---------------------------------------------------------------------------
(* validateFieldType                                                       *)

\* The cases of the type switches: the dynamic types each one lets through.
isString(value) == value.t = "string"

\* case int, int32, int64, float32, float64
isNumber_floatOnly(value) == value.t = "float64"

isNumber(value) == value.t \in {"int", "float64"}

\* case float32, float64
isDouble_anyNumber(value) == value.t \in {"int", "float64"}

isDouble(value) == value.t = "float64"

isBool(value) == value.t = "bool"

\* value.(map[string]interface{}) succeeds
isObject(value) == value.t = "map[string]interface{}"

\* The early return on an explicit null.
nullCheck_lenient(fieldName, expectedType) == Nil

nullCheck(fieldName, expectedType) ==
    IF expectedType = "null"
    THEN Nil
    ELSE "field '" \o fieldName \o "' must not be null"

validateFieldType(fieldName, value, expectedType) ==
    IF value.t = "nil"
    THEN nullCheck(fieldName, expectedType)
    ELSE CASE expectedType = "string" ->
                IF ~isString(value)
                THEN "field '" \o fieldName \o "' must be a string"
                ELSE Nil
           [] expectedType = "number" ->
                IF isNumber(value)
                THEN Nil
                ELSE "field '" \o fieldName \o "' must be a number"
           [] expectedType = "double" ->
                IF isDouble(value)
                THEN Nil
                ELSE "field '" \o fieldName \o "' must be a double (floating-point)"
           [] expectedType \in {"boolean", "bool"} ->
                IF ~isBool(value)
                THEN "field '" \o fieldName \o "' must be a boolean"
                ELSE Nil
           [] expectedType = "array" ->
                IF ~IsSlice(value)
                THEN "field '" \o fieldName \o "' must be an array"
                ELSE Nil
           [] expectedType = "object" ->
                IF ~isObject(value)
                THEN "field '" \o fieldName \o "' must be an object"
                ELSE Nil
           [] expectedType = "null" ->
                "field '" \o fieldName \o "' must be null"
           [] expectedType = "date" ->
                IF value.t \in {"time.Time", "primitive.DateTime"}
                THEN Nil
                ELSE IF value.t = "string"
                THEN IF ~isValidISODateString(value.v)
                     THEN "field '" \o fieldName
                            \o "' must be a valid ISO date string (e.g., RFC3339)"
                     ELSE Nil
                ELSE "field '" \o fieldName
                       \o "' must be a date (time.Time, primitive.DateTime, or ISO string)"
           [] expectedType = "timestamp" ->
                IF value.t \in {"primitive.Timestamp", "int", "float64"}
                THEN Nil
                ELSE IF value.t = "string"
                THEN IF ~ParseIntOk(value.v)
                     THEN "field '" \o fieldName
                            \o "' must be a numeric string representing a timestamp"
                     ELSE Nil
                ELSE "field '" \o fieldName
                       \o "' must be a timestamp (integer, numeric string, or primitive.Timestamp)"
           [] OTHER -> Nil

---------------------------------------------------------------------------
(* validateDataAgainstSchema.  The source ranges over the schema map, and  *)
(* Go leaves the order of a range over a map unspecified: the operator     *)
(* yields the set of errors the call can return, one run of the loop for   *)
(* every order of the schema's fields.                                     *)

Orders(S) ==
    {o \in [1..Cardinality(S) -> S] : \A i, j \in 1..Cardinality(S) : o[i] = o[j] => i = j}

\* The assertion made on the wrong type: required is never read as true.
requiredOf_neverSet(fieldInfo) == FALSE

\* fieldInfo["required"].(bool)
requiredOf(fieldInfo) ==
    IF "required" \in DOMAIN fieldInfo /\ fieldInfo["required"].t = "bool"
    THEN fieldInfo["required"].v
    ELSE FALSE

\* An entry without a type read as one of a string.
fieldTypeOf_defaultString(fieldInfo) ==
    IF "type" \in DOMAIN fieldInfo /\ fieldInfo["type"].t = "string"
    THEN fieldInfo["type"].v
    ELSE "string"

\* fieldInfo["type"].(string)
fieldTypeOf(fieldInfo) ==
    IF "type" \in DOMAIN fieldInfo /\ fieldInfo["type"].t = "string"
    THEN fieldInfo["type"].v
    ELSE ""

\* fieldInfo[key].(map[string]interface{}) succeeds
IsMapAt(fieldInfo, key) ==
    key \in DOMAIN fieldInfo /\ fieldInfo[key].t = "map[string]interface{}"

\* nestedSchema != nil
hasNestedSchema(fieldInfo) ==
    IsMapAt(fieldInfo, "properties") \/ IsMapAt(fieldInfo, "schema")

\* The two assertions made in the other order.
nestedSchemaOf_schemaFirst(fieldInfo) ==
    IF IsMapAt(fieldInfo, "schema")
    THEN fieldInfo["schema"].v
    ELSE fieldInfo["properties"].v

nestedSchemaOf(fieldInfo) ==
    IF IsMapAt(fieldInfo, "properties")
    THEN fieldInfo["properties"].v
    ELSE fieldInfo["schema"].v

\* The nested error returned as it is, without the field that holds it.
wrapNested_bare(field, err) == err

\* fmt.Errorf("object field '%s' validation failed: %v", field, err)
wrapNested(field, err) == "object field '" \o field \o "' validation failed: " \o err

\* The entry that is not a map answered with an error.
skipNonMap_fault(field) == {"schema of field '" \o field \o "' must be an object"}

\* fieldInfo, ok := fieldSchema.(map[string]interface{}); if !ok { continue }
skipNonMap(field) == {Nil}

RECURSIVE validateDataAgainstSchema(_, _)

\* One iteration of the loop: the errors it can return, Nil when the
\* iteration ends without returning (continue, or the end of the body).
fieldBody(field, data, schema) ==
    LET fieldSchema == schema[field] IN
    IF fieldSchema.t # "map[string]interface{}"
    THEN skipNonMap(field)
    ELSE
      LET fieldInfo == fieldSchema.v
          required  == requiredOf(fieldInfo)
          fieldType == fieldTypeOf(fieldInfo)
          exists    == field \in DOMAIN data
      IN
      IF required /\ ~exists
      THEN {"required field '" \o field \o "' is missing"}
      ELSE IF ~exists
      THEN {Nil}
      ELSE
        LET value == data[field]
            err   == validateFieldType(field, value, fieldType)
        IN
        IF err # Nil
        THEN {err}
        ELSE IF fieldType = "object" /\ hasNestedSchema(fieldInfo)
        THEN
          IF value.t \in {"map[string]interface{}", "bson.M"}
          THEN {IF e = Nil
                THEN Nil
                ELSE wrapNested(field, e) :
                    e \in validateDataAgainstSchema(value.v, nestedSchemaOf(fieldInfo))}
          ELSE {"field '" \o field \o "' must be an object for nested validation"}
        ELSE {Nil}

RECURSIVE rangeLoop(_, _, _)

\* The loop run over the schema's fields in the given order.
rangeLoop(order, data, schema) ==
    IF order = <<>>
    THEN {Nil}
    ELSE LET r == fieldBody(Head(order), data, schema) IN
         (r \ {Nil}) \cup
         (IF Nil \in r THEN rangeLoop(Tail(order), data, schema) ELSE {})

validateDataAgainstSchema(data, schema) ==
    UNION {rangeLoop(o, data, schema) : o \in Orders(DOMAIN schema)}

---------------------------------------------------------------------------
(* The inputs the validator is run on.                                     *)

FieldNames == {"name", "age"}

\* A schema with one required string field, the innermost nested schema.
LeafSchema == [first_name |-> VObject([type |-> VStr("string"), required |-> VBool(TRUE)])]

\* Entries a schema may hold for a field: well-formed entries of several
\* kinds, with and without constraints, and malformed ones.
FieldEntries ==
    { VObject([type |-> VStr("string"), required |-> VBool(TRUE)]),
      VObject([type |-> VStr("string"), minLength |-> VFloat(3)]),
      VObject([type |-> VStr("string"), required |-> VStr("yes"), maxLength |-> VFloat(3)]),
      VObject([type |-> VStr("number"), required |-> VBool(FALSE),
               minimum |-> VFloat(0), maximum |-> VFloat(120)]),
      VObject([type |-> VStr("double"), required |-> VBool(TRUE), minimum |-> VFloat(0)]),
      VObject([type |-> VStr("null")]),
      VObject([type |-> VStr("date"), required |-> VBool(TRUE)]),
      VObject([type |-> VStr("timestamp")]),
      VObject([type |-> VStr("object"), required |-> VBool(TRUE),
               properties |-> VObject(LeafSchema)]),
      VObject([type |-> VStr("array"), items |-> VStr("string")]),
      VObject([required |-> VBool(TRUE)]),
      VObject([type |-> VStr("integer"), required |-> VBool(FALSE)]),
      VObject([type |-> VInt(5)]),
      VStr("string") }

\* Values a data object may hold for a field.
FieldValues ==
    { VNil, VBool(TRUE), VInt(-5), VInt(25), VFloat(25), VFloat(-5), VFloat(200),
      VStr("Al"), VStr("Jane"), VStr("2024-08-09"), VStr("1691582400"),
      VArray(<<VStr("tech")>>),
      VObject(<<>>),
      VObject([first_name |-> VStr("Jane")]) }

ObjectsOver(names, values) == UNION {[D -> values] : D \in SUBSET names}

GeneralInputs ==
    ObjectsOver(FieldNames, FieldValues) \X ObjectsOver(FieldNames, FieldEntries)

\* Arrays of up to MaxArrayLen elements under array entries.
ArrayElems == {VStr("tech"), VStr("sales"), VInt(42)}

Arrays == UNION {[1..n -> ArrayElems] : n \in 0..MaxArrayLen}

ArrayEntries ==
    { VObject([type |-> VStr("array"), required |-> VBool(FALSE), items |-> VStr("string")]),
      VObject([type |-> VStr("array"), required |-> VBool(TRUE),
               items |-> VObject([type |-> VStr("string")])]),
      VObject([type |-> VStr("array")]) }

ArrayInputs ==
    ({<<>>} \cup {[interests |-> VArray(a)] : a \in Arrays})
        \X {[interests |-> e] : e \in ArrayEntries}

\* Object fields nested up to MaxDepth levels, the nested schema under
\* either key.
RECURSIVE NestedSchemas(_)
NestedSchemas(d) ==
    IF d = 0
    THEN {LeafSchema}
    ELSE {LeafSchema} \cup
         {[user_info |-> VObject([type |-> VStr("object"), required |-> VBool(TRUE)]
                                 @@ (key :> VObject(s)))] :
             s \in NestedSchemas(d - 1), key \in {"properties", "schema"}}

RECURSIVE NestedData(_)
NestedData(d) ==
    IF d = 0
    THEN {<<>>, [first_name |-> VStr("Jane")], [first_name |-> VInt(42)]}
    ELSE NestedData(0) \cup {[user_info |-> VStr("Jane")]} \cup
         {[user_info |-> VObject(o)] : o \in NestedData(d - 1)} \cup
         {[user_info |-> VBsonM(o)] : o \in NestedData(0)}

NestedInputs == NestedData(MaxDepth) \X NestedSchemas(MaxDepth)

\* Schemas with entries that are not maps (a list, a string, a number,
\* null) next to entries that are, the fields present in the data or not.
NonMapEntries == {VArray(<<VStr("string")>>), VStr("string"), VFloat(5), VNil}

NonMapInputs ==
    ObjectsOver(FieldNames, {VNil, VStr("Jane"), VFloat(25)})
        \X ObjectsOver(FieldNames,
                       NonMapEntries \cup
                       { VObject([type |-> VStr("string"), required |-> VBool(TRUE)]),
                         VObject([type |-> VStr("number")]) })

\* Object entries with a properties key, a schema key, both or neither,
\* their values maps or not.
AltSchema == [first_name |-> VObject([type |-> VStr("number")])]

NestedKeyValues ==
    {VObject(LeafSchema), VObject(AltSchema), VObject(<<>>), VStr("first_name"), VNil}

BothKeyEntries ==
    {VObject([type |-> VStr("object")] @@ p @@ q) :
        p \in {<<>>} \cup {[properties |-> v] : v \in NestedKeyValues},
        q \in {<<>>} \cup {[schema |-> v] : v \in NestedKeyValues}}

BothKeyInputs ==
    ({<<>>} \cup
     {[user_info |-> v] :
         v \in {VObject(<<>>), VObject([first_name |-> VStr("Jane")]),
                VObject([first_name |-> VInt(42)]), VStr("Jane")}})
        \X {[user_info |-> e] : e \in BothKeyEntries}

\* Entries whose type is absent, not a string, or not a kind of the
\* switch, and lead data for a product with such a schema.
UntypedEntries ==
    { VObject([required |-> VBool(TRUE)]),
      VObject([type |-> VFloat(5)]),
      VObject([type |-> VStr("integer"), required |-> VBool(FALSE)]),
      VObject([type |-> VStr("")]) }

HandlerInputs ==
    ObjectsOver({"name"}, FieldValues) \X {[name |-> e] : e \in UntypedEntries}

ValidateInputs ==
    GeneralInputs \cup ArrayInputs \cup NestedInputs \cup NonMapInputs \cup BothKeyInputs

\* Inputs of validateFieldType: every dynamic type against every kind the
\* switch names, a kind it does not name and the empty string.
TypeNames ==
    {"string", "number", "double", "boolean", "bool", "array", "object", "null",
     "date", "timestamp", "integer", ""}

ClassifiedValues ==
    { VNil, VBool(TRUE), VBool(FALSE), VInt(25), VFloat(25), VStr("thirty"),
      VArray(<<>>), VArray(<<VStr("tech"), VInt(42)>>),
      VObject(<<>>), VObject([first_name |-> VStr("Jane")]),
      VBsonM([first_name |-> VStr("Jane")]),
      VStr("1691582400"), VStr("soon"), VStr("2024-08-09T12:00:00Z"),
      VStr("2024-08-09"), VStr("08/09/2024"),
      VTime(0), VDateTime(0), VTimestamp(0),
      VInt(1691582400), VFloat(1691582400),
      VStr(""), VStr("123abc"), VStr("-5"), VStr("12.5"), VStr("9223372036854775808"),
      VStr("2024-02-30"), VStr("2024-08-09 12:00:00"), VStr("2024-08-09 1:00:00"),
      VStr("2024-08-09T12:00:00"), VStr("2024-08-09T25:00:00Z"),
      VStr("2024-08-09T12:00:00.123Z"), VStr("2024-08-09T12:00:00+02:00") }

---------------------------------------------------------------------------
(* The store before any request.                                           *)

NoRequest == [op |-> "none", id |-> 0, data |-> <<>>, code |-> "OK", msg |-> ""]

NoExchange == [handler |-> "none", phone_number |-> "", status |-> 0]

EmptyStore ==
    /\ products = <<>>
    /\ leads = <<>>
    /\ nextProductID = 1
    /\ nextLeadID = 1
    /\ resp = NoRequest
    /\ http = NoExchange

---------------------------------------------------------------------------
(* Runs of the validator on bounded inputs.                                *)

InitValidate ==
    /\ fn = "validateDataAgainstSchema"
    /\ \E in \in ValidateInputs : argData = in[1] /\ argSchema = in[2]
    /\ argField = ""
    /\ argValue = VNil
    /\ argType = ""

InitClassify ==
    /\ fn = "validateFieldType"
    /\ argData = <<>>
    /\ argSchema = <<>>
    /\ argField \in FieldNames
    /\ argValue \in ClassifiedValues
    /\ argType \in TypeNames

\* A CreateLead request about to be handled, the one product of the
\* store created with the schema.
InitCreateLead ==
    /\ fn = "CreateLead"
    /\ \E in \in HandlerInputs : argData = in[1] /\ argSchema = in[2]
    /\ argField = ""
    /\ argValue = VNil
    /\ argType = ""
    /\ products = (1 :> argSchema)
    /\ leads = <<>>
    /\ nextProductID = 2
    /\ nextLeadID = 1
    /\ resp = [op |-> "CreateProduct", id |-> 0, data |-> <<>>, code |-> "OK", msg |-> ""]
    /\ http = [handler |-> "httpCreateProduct", phone_number |-> "", status |-> 200]

ValidatorInit ==
    /\ pc = "call"
    /\ ret = Nil
    /\ calls = <<>>
    /\ \/ EmptyStore /\ (InitValidate \/ InitClassify)
       \/ InitCreateLead

CallValidate ==
    /\ pc = "call"
    /\ fn = "validateDataAgainstSchema"
    /\ ret' \in validateDataAgainstSchema(argData, argSchema)
    /\ pc' = "done"
    /\ UNCHANGED <<storeVars, http, fn, argData, argSchema, argField, argValue, argType,
                   calls>>

CallClassify ==
    /\ pc = "call"
    /\ fn = "validateFieldType"
    /\ ret' = validateFieldType(argField, argValue, argType)
    /\ pc' = "done"
    /\ UNCHANGED <<storeVars, http, fn, argData, argSchema, argField, argValue, argType,
                   calls>>


---------------------------------------------------------------------------
(* Validation calls in progress at once on one schema object, each with a  *)
(* data object of its own, as handlers of simultaneous requests would make *)
(* them.  A step is one iteration of the range loop of one call; the order *)
(* of a call's range is drawn when the call starts.  The body of the loop  *)
(* writes to no map: not to schema or data, and not to a map under them.   *)

SharedSchemas ==
    { [name |-> VObject([type |-> VStr("string"), required |-> VBool(TRUE)]),
       age  |-> VObject([type |-> VStr("number")])],
      [name      |-> VObject([required |-> VBool(TRUE)]),
       user_info |-> VObject([type |-> VStr("object"),
                              properties |-> VObject(LeafSchema)])] }

CallData ==
    { <<>>,
      [name |-> VStr("Jane"), age |-> VFloat(25)],
      [name |-> VFloat(25), age |-> VStr("Al")],
      [name |-> VStr("Jane"), user_info |-> VObject([first_name |-> VFloat(25)])] }

\* The entry of a field without a type given one.
schemaAfter_defaulted(field, schema) ==
    IF schema[field].t = "map[string]interface{}" /\ "type" \notin DOMAIN schema[field].v
    THEN [schema EXCEPT ![field] = VObject([type |-> VStr("string")] @@ schema[field].v)]
    ELSE schema

\* The schema map after an iteration on field: no statement assigns to it.
schemaAfter(field, schema) == schema

\* The data map after an iteration on field: no statement assigns to it.
dataAfter(field, data) == data

ConcurrentInit ==
    /\ EmptyStore
    /\ fn = "validateDataAgainstSchema"
    /\ argSchema \in SharedSchemas
    /\ argData = <<>>
    /\ argField = ""
    /\ argValue = VNil
    /\ argType = ""
    /\ pc = "call"
    /\ ret = Nil
    /\ calls \in [1..MaxCalls ->
                     {[data |-> d, order |-> o, pc |-> "range", ret |-> Nil] :
                         d \in CallData, o \in Orders(DOMAIN argSchema)}]

\* One iteration of the loop of call c: return the error of the field, or
\* go on to the next field.
Iterate(c) ==
    /\ calls[c].pc = "range"
    /\ calls[c].order # <<>>
    /\ LET field == Head(calls[c].order) IN
       /\ \E r \in fieldBody(field, calls[c].data, argSchema) :
             calls' = [calls EXCEPT ![c] =
                          IF r # Nil
                          THEN [data  |-> dataAfter(field, calls[c].data),
                                order |-> calls[c].order,
                                pc    |-> "done",
                                ret   |-> r]
                          ELSE [data  |-> dataAfter(field, calls[c].data),
                                order |-> Tail(calls[c].order),
                                pc    |-> "range",
                                ret   |-> Nil]]
       /\ argSchema' = schemaAfter(field, argSchema)
    /\ UNCHANGED <<storeVars, http, fn, argData, argField, argValue, argType, pc, ret>>

\* The loop of call c is over: return nil.
Return(c) ==
    /\ calls[c].pc = "range"
    /\ calls[c].order = <<>>
    /\ calls' = [calls EXCEPT ![c].pc = "done"]
    /\ UNCHANGED <<storeVars, http, fn, argData, argSchema, argField, argValue, argType,
                   pc, ret>>

ConcurrentNext == \E c \in 1..MaxCalls : Iterate(c) \/ Return(c)

ConcurrentSpec == ConcurrentInit /\ [][ConcurrentNext]_vars

---------------------------------------------------------------------------
(* The service.  Every handler is one action: the reads, the validation    *)
(* and the write of one request.  A product is its schema (name,           *)
(* description and timestamps are stored and returned untouched and no     *)
(* handler reads them); a stored schema reads back as the maps it was      *)
(* written from.  The store is taken to answer every call.                 *)

ProductIDs == 1..MaxProducts
LeadIDs    == 1..MaxLeads

\* Schemas and lead data the requests carry.
RequestSchemas ==
    { [name |-> VObject([type |-> VStr("string"), required |-> VBool(TRUE)]),
       age  |-> VObject([type |-> VStr("number"), required |-> VBool(FALSE),
                         minimum |-> VFloat(0)])],
      [name |-> VObject([required |-> VBool(TRUE)])],
      ("$set" :> VObject([type |-> VStr("array"), minimum |-> VFloat(0)])) }

RequestData ==
    { [age |-> VFloat(25)],
      [name |-> VStr("Jane"), age |-> VFloat(25)],
      [name |-> VStr("Jane"), nickname |-> VStr("Al")] }

\* What resp keeps of a request: the operation and its answer, and of a
\* lead write the id it names and the data it carries.
Response(op, id, data, code, msg) ==
    [op |-> op, id |-> id, data |-> data, code |-> code, msg |-> msg]

Init ==
    /\ EmptyStore
    /\ fn = "none"
    /\ argData = <<>>
    /\ argSchema = <<>>
    /\ argField = ""
    /\ argValue = VNil
    /\ argType = ""
    /\ pc = "idle"
    /\ ret = Nil
    /\ calls = <<>>

CreateProduct(schema) ==
    /\ nextProductID <= MaxProducts
    /\ products' = (nextProductID :> schema) @@ products
    /\ nextProductID' = nextProductID + 1
    /\ resp' = Response("CreateProduct", 0, <<>>, "OK", "")
    /\ UNCHANGED <<leads, nextLeadID, runVars>>

UpdateProduct(id, schema) ==
    /\ IF id \notin DOMAIN products
       THEN /\ resp' = Response("UpdateProduct", 0, <<>>, "NotFound", "product not found")
            /\ UNCHANGED products
       ELSE /\ products' = [products EXCEPT ![id] = schema]
            /\ resp' = Response("UpdateProduct", 0, <<>>, "OK", "")
    /\ UNCHANGED <<leads, nextProductID, nextLeadID, runVars>>

DeleteProduct(id) ==
    /\ IF id \notin DOMAIN products
       THEN /\ resp' = Response("DeleteProduct", 0, <<>>, "NotFound", "product not found")
            /\ UNCHANGED products
       ELSE /\ products' = [p \in DOMAIN products \ {id} |-> products[p]]
            /\ resp' = Response("DeleteProduct", 0, <<>>, "OK", "")
    /\ UNCHANGED <<leads, nextProductID, nextLeadID, runVars>>

\* CreateLead with the validation call left out.
CreateLead_unvalidated(productID, data) ==
    /\ IF productID \notin DOMAIN products
       THEN /\ resp' = Response("CreateLead", productID, data, "NotFound", "product not found")
            /\ UNCHANGED <<leads, nextLeadID>>
       ELSE /\ nextLeadID <= MaxLeads
            /\ leads' = (nextLeadID :> [product_id |-> productID, data |-> data]) @@ leads
            /\ nextLeadID' = nextLeadID + 1
            /\ resp' = Response("CreateLead", productID, data, "OK", "")
    /\ UNCHANGED <<products, nextProductID, runVars>>

CreateLead(productID, data) ==
    /\ IF productID \notin DOMAIN products
       THEN /\ resp' = Response("CreateLead", productID, data, "NotFound", "product not found")
            /\ UNCHANGED <<leads, nextLeadID>>
       ELSE \E err \in validateDataAgainstSchema(data, products[productID]) :
              IF err # Nil
              THEN /\ resp' = Response("CreateLead", productID, data, "InvalidArgument",
                                       "data validation failed: " \o err)
                   /\ UNCHANGED <<leads, nextLeadID>>
              ELSE /\ nextLeadID <= MaxLeads
                   /\ leads' = (nextLeadID :> [product_id |-> productID, data |-> data])
                                 @@ leads
                   /\ nextLeadID' = nextLeadID + 1
                   /\ resp' = Response("CreateLead", productID, data, "OK", "")
    /\ UNCHANGED <<products, nextProductID, runVars>>

UpdateLead(id, data) ==
    /\ IF id \notin DOMAIN leads
       THEN /\ resp' = Response("UpdateLead", id, data, "NotFound", "lead not found")
            /\ UNCHANGED leads
       ELSE IF leads[id].product_id \notin DOMAIN products
       THEN /\ resp' = Response("UpdateLead", id, data, "Internal",
                                "failed to get product for validation: mongo: no documents in result")
            /\ UNCHANGED leads
       ELSE \E err \in validateDataAgainstSchema(data, products[leads[id].product_id]) :
              IF err # Nil
              THEN /\ resp' = Response("UpdateLead", id, data, "InvalidArgument",
                                       "data validation failed: " \o err)
                   /\ UNCHANGED leads
              ELSE /\ leads' = [leads EXCEPT ![id].data = data]
                   /\ resp' = Response("UpdateLead", id, data, "OK", "")
    /\ UNCHANGED <<products, nextProductID, nextLeadID, runVars>>

DeleteLead(id) ==
    /\ IF id \notin DOMAIN leads
       THEN /\ resp' = Response("DeleteLead", 0, <<>>, "NotFound", "lead not found")
            /\ UNCHANGED leads
       ELSE /\ leads' = [l \in DOMAIN leads \ {id} |-> leads[l]]
            /\ resp' = Response("DeleteLead", 0, <<>>, "OK", "")
    /\ UNCHANGED <<products, nextProductID, nextLeadID, runVars>>

---------------------------------------------------------------------------
(* The HTTP handlers.  Each decodes the body into the request struct of    *)
(* its method, calls the method and writes a status from the code of the   *)
(* error returned.  A body drawn here always decodes; encoding/json drops  *)
(* the keys of a body that the request struct has no field for, so the     *)
(* phone_number of a POST /api/leads body reaches no method.               *)

PhoneNumbers == {"+1234567890", "+1234567899"}

Exchange(handler, phone_number, status) ==
    [handler |-> handler, phone_number |-> phone_number, status |-> status]

\* if status.Code(err) == codes.NotFound {...} else {...}
statusOfProductError(code) == IF code = "NotFound" THEN 404 ELSE 500

\* if codes.NotFound {...} else if codes.InvalidArgument {...} else {...}
statusOfLeadError(code) ==
    IF code = "NotFound"
    THEN 404
    ELSE IF code = "InvalidArgument" THEN 400 ELSE 500

httpCreateProduct(schema) ==
    /\ CreateProduct(schema)
    /\ http' = Exchange("httpCreateProduct", "",
                        IF resp'.code # "OK" THEN 500 ELSE 200)

httpUpdateProduct(id, schema) ==
    /\ UpdateProduct(id, schema)
    /\ http' = Exchange("httpUpdateProduct", "",
                        IF resp'.code # "OK" THEN statusOfProductError(resp'.code) ELSE 200)

httpDeleteProduct(id) ==
    /\ DeleteProduct(id)
    /\ http' = Exchange("httpDeleteProduct", "",
                        IF resp'.code # "OK" THEN statusOfProductError(resp'.code) ELSE 204)

httpCreateLead(phone_number, productID, data) ==
    /\ CreateLead(productID, data)
    /\ http' = Exchange("httpCreateLead", phone_number,
                        IF resp'.code # "OK" THEN statusOfLeadError(resp'.code) ELSE 200)

httpUpdateLead(id, data) ==
    /\ UpdateLead(id, data)
    /\ http' = Exchange("httpUpdateLead", "",
                        IF resp'.code # "OK" THEN statusOfLeadError(resp'.code) ELSE 200)

httpDeleteLead(id) ==
    /\ DeleteLead(id)
    /\ http' = Exchange("httpDeleteLead", "",
                        IF resp'.code # "OK" THEN statusOfProductError(resp'.code) ELSE 204)

Next ==
    \/ \E schema \in RequestSchemas : httpCreateProduct(schema)
    \/ \E id \in ProductIDs, schema \in RequestSchemas : httpUpdateProduct(id, schema)
    \/ \E id \in ProductIDs : httpDeleteProduct(id)
    \/ \E phone_number \in PhoneNumbers, productID \in ProductIDs, data \in RequestData :
          httpCreateLead(phone_number, productID, data)
    \/ \E id \in LeadIDs, data \in RequestData : httpUpdateLead(id, data)
    \/ \E id \in LeadIDs : httpDeleteLead(id)

Spec == Init /\ [][Next]_vars

---------------------------------------------------------------------------
(* Runs of the validator, and of the handler that stores what it accepts,  *)
(* on bounded inputs.                                                      *)

CallCreateLead ==
    /\ pc = "call"
    /\ fn = "CreateLead"
    /\ resp.op # "CreateLead"
    /\ \E phone_number \in PhoneNumbers : httpCreateLead(phone_number, 1, argData)

ValidatorNext == CallValidate \/ CallClassify \/ CallCreateLead

ValidatorSpec == ValidatorInit /\ [][ValidatorNext]_vars

---------------------------------------------------------------------------
(* Properties.                                                             *)

\* The schema a lead write validates against: the product named by the
\* request (CreateLead) or by the stored lead (UpdateLead), when both
\* lookups succeed.
LookupSucceeds(r) ==
    \/ r.op = "CreateLead" /\ r.id \in DOMAIN products
    \/ /\ r.op = "UpdateLead"
       /\ r.id \in DOMAIN leads
       /\ leads[r.id].product_id \in DOMAIN products

SchemaRead(r) ==
    IF r.op = "CreateLead" THEN products[r.id] ELSE products[leads[r.id].product_id]

\* The leads a step inserts or gives new data.
Written(l) ==
    /\ l \in DOMAIN leads'
    /\ l \notin DOMAIN leads \/ leads'[l].data # leads[l].data

\* C1: a step inserts a lead or replaces a lead's data only as a CreateLead
\* or UpdateLead whose product lookup succeeded and whose data the validator
\* accepts against the schema read by that request; a lead write whose data
\* the validator rejects is answered InvalidArgument, with the validator's
\* message, and leaves the lead collection unchanged.
C1_WritesGatedByValidation ==
    [][ /\ \A l \in 1..MaxLeads :
              Written(l) =>
                  /\ resp'.op \in {"CreateLead", "UpdateLead"}
                  /\ resp'.code = "OK"
                  /\ leads'[l].data = resp'.data
                  /\ LookupSucceeds(resp')
                  /\ Nil \in validateDataAgainstSchema(resp'.data, SchemaRead(resp'))
        /\ (/\ resp'.op \in {"CreateLead", "UpdateLead"}
            /\ LookupSucceeds(resp')
            /\ Nil \notin validateDataAgainstSchema(resp'.data, SchemaRead(resp')))
               => /\ resp'.code = "InvalidArgument"
                  /\ \E err \in validateDataAgainstSchema(resp'.data, SchemaRead(resp')) :
                        resp'.msg = "data validation failed: " \o err
                  /\ leads' = leads
      ]_vars

\* A lead stored by a CreateLead the validator accepted, next to a rejected
\* write: the last request was rejected and a lead is stored.
C1_Witness ==
    /\ resp.op = "UpdateLead"
    /\ resp.code = "InvalidArgument"
    /\ \E l \in DOMAIN leads : leads[l].data # resp.data

---------------------------------------------------------------------------
(* What the specification calls a valid object, stated on the value tree:  *)
(* membership of a value in a kind, the declared bounds, and conformance   *)
(* of an object to a schema.                                               *)

Entry(S, f) == S[f].v

IsNode(S, f) == S[f].t = "map[string]interface{}"

Has(entry, key) == key \in DOMAIN entry

KindOf(entry) ==
    IF Has(entry, "type") /\ entry["type"].t = "string" THEN entry["type"].v ELSE "(none)"

MarkedRequired(entry) ==
    Has(entry, "required") /\ entry["required"] = VBool(TRUE)

NumberTags == {"int", "float64"}

BelongsTo(value, kind) ==
    CASE kind = "null"               -> value.t = "nil"
      [] kind = "string"             -> value.t = "string"
      [] kind = "number"             -> value.t \in NumberTags
      [] kind = "double"             -> value.t = "float64"
      [] kind \in {"boolean", "bool"} -> value.t = "bool"
      [] kind = "array"              -> value.t = "[]interface{}"
      [] kind = "object"             -> value.t = "map[string]interface{}"
      [] kind = "date"               ->
            \/ value.t \in {"time.Time", "primitive.DateTime"}
            \/ value.t = "string" /\ isValidISODateString(value.v)
      [] kind = "timestamp"          ->
            \/ value.t \in {"primitive.Timestamp", "int", "float64"}
            \/ value.t = "string" /\ ParseIntOk(value.v)
      [] OTHER                       -> FALSE

\* The declared bound under key, when it is a number.
HasBound(entry, key) == Has(entry, key) /\ entry[key].t \in NumberTags

ViolatedConstraints(value, entry) ==
    LET kind == KindOf(entry) IN
    {c \in {"minimum", "maximum", "minLength", "maxLength"} :
        /\ HasBound(entry, c)
        /\ \/ c = "minimum" /\ kind \in {"number", "double"}
                /\ value.t \in NumberTags /\ value.v < entry[c].v
           \/ c = "maximum" /\ kind \in {"number", "double"}
                /\ value.t \in NumberTags /\ value.v > entry[c].v
           \/ c = "minLength" /\ kind = "string"
                /\ value.t = "string" /\ Len(value.v) < entry[c].v
           \/ c = "maxLength" /\ kind = "string"
                /\ value.t = "string" /\ Len(value.v) > entry[c].v}

NestedOf(entry) ==
    IF Has(entry, "properties") /\ entry["properties"].t = "map[string]interface{}"
    THEN entry["properties"].v
    ELSE entry["schema"].v

DeclaresNested(entry) ==
    /\ KindOf(entry) = "object"
    /\ \/ Has(entry, "properties") /\ entry["properties"].t = "map[string]interface{}"
       \/ Has(entry, "schema") /\ entry["schema"].t = "map[string]interface{}"

\* The elements of an array that fail the declared item spec: a bare kind,
\* or a node whose kind the element must have.
ItemKind(entry) ==
    IF entry["items"].t = "string"
    THEN entry["items"].v
    ELSE KindOf(entry["items"].v)

DeclaresItems(entry) ==
    /\ KindOf(entry) = "array"
    /\ Has(entry, "items")
    /\ entry["items"].t \in {"string", "map[string]interface{}"}

FailingItems(value, entry) ==
    {i \in 1..Len(value.v) : ~BelongsTo(value.v[i], ItemKind(entry))}

RECURSIVE Conforms(_, _)

\* Field f of schema S is satisfied by object D: present when required, and
\* when present of the declared kind, within the declared bounds, with valid
\* elements, and conforming to the nested schema.
FieldConforms(D, S, f) ==
    \/ ~IsNode(S, f)
    \/ LET entry == Entry(S, f) IN
       IF f \notin DOMAIN D
       THEN ~MarkedRequired(entry)
       ELSE /\ BelongsTo(D[f], KindOf(entry))
            /\ ViolatedConstraints(D[f], entry) = {}
            /\ DeclaresItems(entry) => FailingItems(D[f], entry) = {}
            /\ DeclaresNested(entry) => Conforms(D[f].v, NestedOf(entry))

Conforms(D, S) == \A f \in DOMAIN S : FieldConforms(D, S, f)

\* The schema fields marked required and absent from the object.
MissingRequired(D, S) ==
    {f \in DOMAIN S : IsNode(S, f) /\ MarkedRequired(Entry(S, f)) /\ f \notin DOMAIN D}

Validated == fn = "validateDataAgainstSchema" /\ pc = "done"

Classified == fn = "validateFieldType" /\ pc = "done"

\* C2: when exactly one schema field f is marked required and absent from
\* the data, and every other schema field is satisfied by the data, the
\* validator returns "required field 'f' is missing"; when every schema
\* field is absent from the data and none is marked required, it returns no
\* error.
C2_MissingRequiredField ==
    Validated =>
        /\ \A f \in DOMAIN argSchema :
              (/\ MissingRequired(argData, argSchema) = {f}
               /\ \A g \in DOMAIN argSchema \ {f} : FieldConforms(argData, argSchema, g))
                  => ret = "required field '" \o f \o "' is missing"
        /\ (/\ MissingRequired(argData, argSchema) = {}
            /\ DOMAIN argSchema \cap DOMAIN argData = {})
               => ret = Nil

\* The README's case: name required and absent, age present and valid.
C2_Witness ==
    /\ Validated
    /\ argData = [age |-> VFloat(25)]
    /\ DOMAIN argSchema = {"name", "age"}
    /\ MissingRequired(argData, argSchema) = {"name"}
    /\ FieldConforms(argData, argSchema, "age")
    /\ IsNode(argSchema, "age")
    /\ KindOf(Entry(argSchema, "age")) = "number"
    /\ IsNode(argSchema, "name")
    /\ KindOf(Entry(argSchema, "name")) = "string"
    /\ ret = "required field 'name' is missing"

KindPhrase(kind) ==
    CASE kind = "string"              -> "a string"
      [] kind = "number"              -> "a number"
      [] kind = "double"              -> "a double (floating-point)"
      [] kind \in {"boolean", "bool"} -> "a boolean"
      [] kind = "array"               -> "an array"
      [] kind = "object"              -> "an object"

StructuralKinds == {"string", "number", "double", "boolean", "bool", "array", "object"}

\* C4: for a non-null value and a kind among string, number, double,
\* boolean/bool, array and object, validateFieldType returns no error
\* exactly when the value's representation belongs to the kind, and
\* otherwise the error "field '<name>' must be <the kind>".
C4_KindMembership ==
    (Classified /\ argValue # VNil /\ argType \in StructuralKinds) =>
        /\ ret = Nil <=> BelongsTo(argValue, argType)
        /\ ret # Nil => ret = "field '" \o argField \o "' must be " \o KindPhrase(argType)

\* An integer is a number but not a double: the integer 25 classified
\* against kind double and rejected.
C4_Witness ==
    /\ Classified
    /\ argValue = VInt(25)
    /\ argType = "double"
    /\ argField = "age"
    /\ ret = "field 'age' must be a double (floating-point)"

\* C5: a null value is accepted exactly under kind "null" and otherwise
\* rejected with "field 'f' must not be null", also when the field is
\* required; a non-null value under kind "null" is rejected with
\* "field 'f' must be null".
C5_NullHandling ==
    /\ (Classified /\ argValue = VNil) =>
          /\ ret = Nil <=> argType = "null"
          /\ argType # "null" => ret = "field '" \o argField \o "' must not be null"
    /\ (Classified /\ argValue # VNil /\ argType = "null") =>
          ret = "field '" \o argField \o "' must be null"
    /\ Validated =>
          \A f \in DOMAIN argSchema :
              (/\ DOMAIN argSchema = {f}
               /\ IsNode(argSchema, f)
               /\ f \in DOMAIN argData
               /\ argData[f] = VNil)
                 => IF KindOf(Entry(argSchema, f)) = "null"
                    THEN ret = Nil
                    ELSE ret = "field '" \o f \o "' must not be null"

\* A required field that is present and null.
C5_Witness ==
    /\ Validated
    /\ DOMAIN argSchema = {"name"}
    /\ IsNode(argSchema, "name")
    /\ MarkedRequired(Entry(argSchema, "name"))
    /\ KindOf(Entry(argSchema, "name")) = "string"
    /\ "name" \in DOMAIN argData
    /\ argData["name"] = VNil
    /\ ret = "field 'name' must not be null"

\* The failures of the nested validation of object field f, each wrapped
\* once with the field that holds the object.
NestedFailures(D, S, f) ==
    {"object field '" \o f \o "' validation failed: " \o e :
        e \in validateDataAgainstSchema(D[f].v, NestedOf(Entry(S, f))) \ {Nil}}

\* C6: when an object-kind field f declares a nested schema, its value is
\* an object and every other schema field is satisfied, the validator
\* returns no error if the nested validation passes and otherwise a nested
\* failure wrapped as "object field 'f' validation failed: <inner>", once
\* per level; a required first_name missing from user_info, one and two
\* levels down, gives the messages written out here.
C6_NestedValidation ==
    Validated =>
        /\ \A f \in DOMAIN argSchema :
              (/\ IsNode(argSchema, f)
               /\ DeclaresNested(Entry(argSchema, f))
               /\ f \in DOMAIN argData
               /\ argData[f].t = "map[string]interface{}"
               /\ \A g \in DOMAIN argSchema \ {f} : FieldConforms(argData, argSchema, g))
                 => IF NestedFailures(argData, argSchema, f) = {}
                    THEN ret = Nil
                    ELSE ret \in NestedFailures(argData, argSchema, f)
        /\ (/\ DOMAIN argSchema = {"user_info"}
            /\ IsNode(argSchema, "user_info")
            /\ DeclaresNested(Entry(argSchema, "user_info"))
            /\ NestedOf(Entry(argSchema, "user_info")) = LeafSchema
            /\ argData = [user_info |-> VObject(<<>>)])
               => ret = "object field 'user_info' validation failed: "
                          \o "required field 'first_name' is missing"
        /\ (/\ DOMAIN argSchema = {"user_info"}
            /\ IsNode(argSchema, "user_info")
            /\ DeclaresNested(Entry(argSchema, "user_info"))
            /\ DOMAIN NestedOf(Entry(argSchema, "user_info")) = {"user_info"}
            /\ IsNode(NestedOf(Entry(argSchema, "user_info")), "user_info")
            /\ DeclaresNested(Entry(NestedOf(Entry(argSchema, "user_info")), "user_info"))
            /\ NestedOf(Entry(NestedOf(Entry(argSchema, "user_info")), "user_info")) = LeafSchema
            /\ argData = [user_info |-> VObject([user_info |-> VObject(<<>>)])])
               => ret = "object field 'user_info' validation failed: "
                          \o "object field 'user_info' validation failed: "
                          \o "required field 'first_name' is missing"

\* The nested failure two levels down.
C6_Witness ==
    /\ Validated
    /\ argData = [user_info |-> VObject([user_info |-> VObject(<<>>)])]
    /\ ret = "object field 'user_info' validation failed: "
               \o "object field 'user_info' validation failed: "
               \o "required field 'first_name' is missing"

\* The errors that name element i (counted from 0) of array field f.
ItemErrors(f, i) ==
    {"field '" \o f \o "'[" \o ToString(i) \o "] must be " \o KindPhrase(k) :
        k \in StructuralKinds}

FirstFailingItem(value, entry) ==
    CHOOSE i \in FailingItems(value, entry) :
        \A j \in FailingItems(value, entry) : i <= j

\* C7: when an array-kind field declares items, its value is an array with
\* an element that fails the item spec and every other schema field is
\* satisfied, the validator returns an error naming the field and the index
\* of the first failing element.
C7_ArrayItemsValidated ==
    Validated =>
        \A f \in DOMAIN argSchema :
            (/\ IsNode(argSchema, f)
             /\ DeclaresItems(Entry(argSchema, f))
             /\ f \in DOMAIN argData
             /\ argData[f].t = "[]interface{}"
             /\ FailingItems(argData[f], Entry(argSchema, f)) # {}
             /\ \A g \in DOMAIN argSchema \ {f} : FieldConforms(argData, argSchema, g))
               => ret \in ItemErrors(f, FirstFailingItem(argData[f], Entry(argSchema, f)) - 1)

\* C8: when a present value of the declared kind violates a declared
\* minimum, maximum, minLength or maxLength, the validator returns an error.
C8_ConstraintsEnforced ==
    Validated =>
        \A f \in DOMAIN argSchema :
            (/\ IsNode(argSchema, f)
             /\ f \in DOMAIN argData
             /\ BelongsTo(argData[f], KindOf(Entry(argSchema, f)))
             /\ ViolatedConstraints(argData[f], Entry(argSchema, f)) # {})
               => ret # Nil

\* A schema definition the specification calls well-formed.
RecognizedKinds ==
    {"string", "number", "double", "boolean", "bool", "array", "object", "null",
     "date", "timestamp"}

AllowedKeys(kind) ==
    {"type", "required"} \cup
    (CASE kind = "string"                -> {"pattern", "minLength", "maxLength"}
       [] kind \in {"number", "double"}  -> {"minimum", "maximum"}
       [] kind = "object"                -> {"properties", "schema"}
       [] kind = "array"                 -> {"items"}
       [] OTHER                          -> {})

LegalFieldName(f) ==
    LET cs == Chars(f) IN
    /\ cs # <<>> => cs[1] # "$"
    /\ \A i \in 1..Len(cs) : cs[i] # "."

WellFormedSchema(S) ==
    \A f \in DOMAIN S :
        /\ LegalFieldName(f)
        /\ IsNode(S, f)
        /\ KindOf(Entry(S, f)) \in RecognizedKinds
        /\ KindOf(Entry(S, f)) = "array" => Has(Entry(S, f), "items")
        /\ DOMAIN Entry(S, f) \subseteq AllowedKeys(KindOf(Entry(S, f)))

\* The fields of a lead write's data that the schema it is validated
\* against does not declare.
UnknownFields(r) == DOMAIN r.data \ DOMAIN SchemaRead(r)

\* C9: a lead write whose data holds a field the well-formed schema does
\* not declare, and is valid otherwise, is answered InvalidArgument with
\* "unknown field '<name>' is not allowed", and nothing is stored.
C9_UnknownFieldRejected ==
    (/\ resp.op \in {"CreateLead", "UpdateLead"}
     /\ LookupSucceeds(resp)
     /\ WellFormedSchema(SchemaRead(resp))
     /\ UnknownFields(resp) # {}
     /\ Conforms(resp.data, SchemaRead(resp)))
       => /\ resp.code = "InvalidArgument"
          /\ resp.msg \in {"data validation failed: unknown field '" \o u \o "' is not allowed" :
                              u \in UnknownFields(resp)}
          /\ \A l \in DOMAIN leads : leads[l].data # resp.data

\* C10: every stored product's schema is well-formed.
C10_StoredSchemasWellFormed ==
    \A p \in DOMAIN products : WellFormedSchema(products[p])

---------------------------------------------------------------------------
\* C11: validation is a function of (data, schema): the error a run returns
\* is the one every run on the same data and schema returns, so that of two
\* invalid fields the same one is reported by every run.
C11_Deterministic ==
    Validated => \A e \in validateDataAgainstSchema(argData, argSchema) : e = ret

\* The product a lead write needs is not in the product collection: the one
\* the request names (POST /api/leads), or the one the stored lead names
\* (PUT /api/leads/{id}).
ProductMissing(r) ==
    \/ r.op = "CreateLead" /\ r.id \notin DOMAIN products
    \/ /\ r.op = "UpdateLead"
       /\ r.id \in DOMAIN leads
       /\ leads[r.id].product_id \notin DOMAIN products

\* C12: a lead write whose product does not exist is answered with status
\* 404 and leaves the lead collection as it was.
C12_MissingProductIs404 ==
    [][ ProductMissing(resp') => (http'.status = 404 /\ leads' = leads) ]_vars

\* The schema with every entry that is not a map removed.
WithoutNonMaps(S) == [f \in {g \in DOMAIN S : IsNode(S, g)} |-> S[f]]

\* C13: on a schema with entries that are not maps the validator returns
\* what it returns on the schema with those entries removed: the same
\* outcomes are possible, and the one returned is among them.
C13_NonMapEntriesSkipped ==
    Validated =>
        /\ ret \in validateDataAgainstSchema(argData, WithoutNonMaps(argSchema))
        /\ validateDataAgainstSchema(argData, argSchema)
              = validateDataAgainstSchema(argData, WithoutNonMaps(argSchema))

\* A list where the entry of name should be, name present in the data, and
\* the error of the other field returned.
C13_Witness ==
    /\ Validated
    /\ DOMAIN argSchema = {"name", "age"}
    /\ argSchema["name"] = VArray(<<VStr("string")>>)
    /\ argSchema["age"] = VObject([type |-> VStr("number")])
    /\ argData = [name |-> VStr("Jane"), age |-> VStr("Jane")]
    /\ ret = "field 'age' must be a number"

---------------------------------------------------------------------------
(* The strings the specification lets a timestamp or a date be written as, *)
(* read off the characters of the string.                                  *)

\* A base-10 integer in full: an optional sign and one or more digits and
\* nothing else, a value of the 64-bit integers of the value model.
DecimalInteger(s) ==
    LET cs       == Chars(s)
        negative == cs # <<>> /\ cs[1] = "-"
        digits   == IF cs # <<>> /\ cs[1] \in {"+", "-"} THEN Tail(cs) ELSE cs
        mag      == StripZeros(digits)
        most     == IF negative THEN MinInt64Digits ELSE MaxInt64Digits
    IN  /\ Len(digits) >= 1
        /\ \A i \in 1..Len(digits) : IsDigit(digits[i])
        /\ Len(mag) <= Len(most)
        /\ Len(mag) = Len(most) => DigitsLeq(mag, most)

TimestampAccepted(value) ==
    \/ value.t \in {"primitive.Timestamp"} \cup NumberTags
    \/ value.t = "string" /\ DecimalInteger(value.v)

\* C14: under kind timestamp a non-null value is accepted exactly when it
\* is a native store timestamp, an integer, a float or a string that is a
\* base-10 integer in full; 1691582400, 1691582400.0 and "1691582400" are
\* accepted, "soon", "" and "123abc" are rejected, and so are booleans,
\* arrays and objects.
C14_TimestampKind ==
    (Classified /\ argValue # VNil /\ argType = "timestamp") =>
        /\ ret = Nil <=> TimestampAccepted(argValue)
        /\ argValue \in {VInt(1691582400), VFloat(1691582400), VStr("1691582400")}
              => ret = Nil
        /\ argValue \in {VStr("soon"), VStr(""), VStr("123abc")}
              => ret = "field '" \o argField
                         \o "' must be a numeric string representing a timestamp"
        /\ argValue.t \in {"bool", "[]interface{}", "map[string]interface{}"}
              => ret # Nil

\* A string with digits first and a letter after them, rejected.
C14_Witness ==
    /\ Classified
    /\ argType = "timestamp"
    /\ argValue = VStr("123abc")
    /\ argField = "age"
    /\ ret = "field 'age' must be a numeric string representing a timestamp"

\* A string with every digit replaced by "d".
Shape(cs) == [i \in 1..Len(cs) |-> IF IsDigit(cs[i]) THEN "d" ELSE cs[i]]

DateShape == <<"d", "d", "d", "d", "-", "d", "d", "-", "d", "d">>

\* The clock of a layout as time.Parse reads it: an hour of one or two
\* digits, and after the seconds an optional fraction.
ClockShapes ==
    { <<"d", "d", ":", "d", "d", ":", "d", "d">>, <<"d", ":", "d", "d", ":", "d", "d">> }

FractionShapes ==
    {<<>>} \cup {<<p>> \o [i \in 1..n |-> "d"] : p \in {".", ","}, n \in 1..9}

ZoneShapes == {<<"Z">>} \cup {<<sg, "d", "d", ":", "d", "d">> : sg \in {"+", "-"}}

\* RFC3339 with or without a fraction, with Z or an offset; YYYY-MM-DD;
\* YYYY-MM-DD HH:MM:SS; YYYY-MM-DDTHH:MM:SS.
LayoutShapes ==
    {DateShape}
    \cup {DateShape \o <<sep>> \o c \o f :
             sep \in {" ", "T"}, c \in ClockShapes, f \in FractionShapes}
    \cup {DateShape \o <<"T">> \o c \o f \o z :
             c \in ClockShapes, f \in FractionShapes, z \in ZoneShapes}

\* The fields of a string of one of the shapes name a day of the calendar
\* and a time of the day.
FieldsInRange(cs) ==
    LET year  == NumVal(SubSeq(cs, 1, 4))
        month == NumVal(SubSeq(cs, 6, 7))
        day   == NumVal(SubSeq(cs, 9, 10))
        clock == SubSeq(cs, 12, Len(cs))
        hlen  == IF clock[2] = ":" THEN 1 ELSE 2
    IN  /\ month \in 1..12
        /\ day \in 1..DaysIn(month, year)
        /\ Len(cs) > 10 =>
              /\ NumVal(SubSeq(clock, 1, hlen)) < 24
              /\ NumVal(SubSeq(clock, hlen + 2, hlen + 3)) < 60
              /\ NumVal(SubSeq(clock, hlen + 5, hlen + 6)) < 60

MatchesLayout(s) ==
    LET cs == Chars(s) IN Shape(cs) \in LayoutShapes /\ FieldsInRange(cs)

DateAccepted(value) ==
    \/ value.t \in {"time.Time", "primitive.DateTime"}
    \/ value.t = "string" /\ MatchesLayout(value.v)

---------------------------------------------------------------------------
\* The entry without one of its keys, and the schema with that entry in the
\* place of field f's.
DropKey(entry, key) == [k \in DOMAIN entry \ {key} |-> entry[k]]

WithEntry(S, f, entry) == [S EXCEPT ![f] = VObject(entry)]

HasBothKeys(S, f) ==
    /\ IsNode(S, f)
    /\ KindOf(Entry(S, f)) = "object"
    /\ Has(Entry(S, f), "properties")
    /\ Has(Entry(S, f), "schema")

IsMapping(entry, key) == Has(entry, key) /\ entry[key].t = "map[string]interface{}"

\* C16 as claimed: with both keys in the entry of an object-kind field the
\* value of schema is not used, whatever the two values are: the validator
\* returns what it returns on the entry without its schema key.
C16_PropertiesAlwaysWins ==
    Validated =>
        \A f \in DOMAIN argSchema :
            HasBothKeys(argSchema, f) =>
                ret \in validateDataAgainstSchema(
                            argData, WithEntry(argSchema, f, DropKey(Entry(argSchema, f), "schema")))

\* C16 amended: the value of properties is the nested schema whenever it is
\* a mapping, whatever the value of schema is; the value of schema is the
\* nested schema when properties is absent or not a mapping.
C16_PropertiesWinsWhenMapping ==
    Validated =>
        \A f \in DOMAIN argSchema :
            (IsNode(argSchema, f) /\ KindOf(Entry(argSchema, f)) = "object") =>
                LET entry == Entry(argSchema, f) IN
                /\ IsMapping(entry, "properties") =>
                      /\ ret \in validateDataAgainstSchema(
                                    argData, WithEntry(argSchema, f, DropKey(entry, "schema")))
                      /\ validateDataAgainstSchema(argData, argSchema)
                            = validateDataAgainstSchema(
                                  argData, WithEntry(argSchema, f, DropKey(entry, "schema")))
                /\ (~IsMapping(entry, "properties") /\ IsMapping(entry, "schema")) =>
                      /\ ret \in validateDataAgainstSchema(
                                    argData,
                                    WithEntry(argSchema, f,
                                              [properties |-> entry["schema"]]
                                                  @@ DropKey(DropKey(entry, "schema"),
                                                             "properties")))
                      /\ validateDataAgainstSchema(argData, argSchema)
                            = validateDataAgainstSchema(
                                  argData,
                                  WithEntry(argSchema, f,
                                            [properties |-> entry["schema"]]
                                                @@ DropKey(DropKey(entry, "schema"),
                                                           "properties")))

\* Both keys hold mappings that disagree on first_name, and the error is
\* the one of the schema under properties.
C16_Witness ==
    /\ Validated
    /\ argSchema = [user_info |-> VObject([type |-> VStr("object"),
                                           properties |-> VObject(LeafSchema),
                                           schema |-> VObject(AltSchema)])]
    /\ argData = [user_info |-> VObject([first_name |-> VInt(42)])]
    /\ ret = "object field 'user_info' validation failed: "
               \o "field 'first_name' must be a string"

---------------------------------------------------------------------------
\* C17: no step of a validation call changes the schema or the data of any
\* call, whether the step goes on, returns an error or returns from a
\* nested validation; and a call that returns, whatever steps of other
\* calls on the same schema came between its own, returns a result of the
\* call run alone on its data and the schema.
C17_NoMutation ==
    [][ /\ argSchema' = argSchema
        /\ \A c \in 1..MaxCalls :
              /\ calls'[c].data = calls[c].data
              /\ (calls[c].pc = "range" /\ calls'[c].pc = "done")
                    => calls'[c].ret \in validateDataAgainstSchema(calls[c].data, argSchema)
      ]_vars

\* Two calls on the schema with a nested object, both over: one returned
\* the error of the nested validation and the other none.
C17_Witness ==
    /\ "user_info" \in DOMAIN argSchema
    /\ \A c \in DOMAIN calls : calls[c].pc = "done"
    /\ \E c, d \in DOMAIN calls :
          /\ calls[c].ret = "object field 'user_info' validation failed: "
                              \o "field 'first_name' must be a string"
          /\ calls[d].ret = "required field 'name' is missing"

---------------------------------------------------------------------------
\* A POST /api/leads answered with success.
LeadCreated(h) == h.handler = "httpCreateLead" /\ h.status = 200

\* C18: there is at most one stored lead per phone_number: a successful
\* POST /api/leads with the phone_number of a stored lead adds no lead.
\* Stated of a POST that follows a successful POST with the same
\* phone_number, whose lead is then the stored lead it matches.
C18_OneLeadPerPhoneNumber ==
    [][ (/\ LeadCreated(http)
         /\ LeadCreated(http')
         /\ http'.phone_number = http.phone_number)
           => DOMAIN leads' = DOMAIN leads ]_vars

---------------------------------------------------------------------------
\* The type of the entry is absent, not a string, or no recognized kind.
Unrecognized(entry) == KindOf(entry) \notin RecognizedKinds

Handled == fn = "CreateLead" /\ resp.op = "CreateLead"

===========================================================================
